---- MODULE Spec2Model ----
(***************************************************************************)
(* Model of the qmp archive tools: scripts/daily_build.py (document        *)
(* parser, keyword canonicalizer, entry builder, archive merger) and       *)
(* scripts/gen_keywords.py (keyword clean-up for the pending list).        *)
(*                                                                         *)
(* Python strings are modelled as sequences of one-character strings, so   *)
(* that stripping, case folding, accent removal, regular-expression        *)
(* matching and string comparison are computed and not assumed.            *)
(***************************************************************************)
EXTENDS Integers, Sequences, FiniteSets, TLC

VARIABLES
    kin,        \* keyword tools: the list handed to the last keyword operation
    kout,       \* keyword tools: the list the last keyword operation returned
    ops,        \* keyword tools: the operations applied so far, in order
    doc,        \* parser: the document (metadata block lines, file name)
    parsed,     \* parser: the metadata parse_txt returned, once it has run
    pc,         \* pipeline: each run's position in main()
    meta,       \* pipeline: each run's metadata after the CLI overrides
    keywords,   \* pipeline: each run's keyword list
    entry,      \* pipeline: each run's new archive entry
    entries,    \* pipeline: each run's in-memory archive
    failure,    \* pipeline: why a run failed
    storage,    \* the persisted archive file
    loadSrc,    \* history: the file content each run's load_entries saw
    loadRes,    \* history: what each run's load_entries returned
    startStorage, \* history: the file content when each run started
    added,      \* history: the entries written by successful runs
    nruns       \* number of runs started so far

vars == <<kin, kout, ops, doc, parsed, pc, meta, keywords, entry, entries,
          failure, storage, loadSrc, loadRes, startStorage, added, nruns>>

kwVars == <<kin, kout, ops>>
parseVars == <<doc, parsed>>
runVars == <<pc, meta, keywords, entry, entries, failure, storage, loadSrc,
             loadRes, startStorage, added, nruns>>

----------------------------------------------------------------------------
(* Bounds of the model *)

\* longest generated candidate list (the cap of 30 must be exceeded)
MaxN == 32
\* longest candidate list built from the irregular items
MaxShort == 2
\* number of keyword operations applied in a row
MaxOps == 2
\* number of metadata-block lines of a document
MaxLines == 2
\* number of runs of the pipeline started in one behaviour
MaxRuns == 3

\* the hard cap on the keyword list
MaxKeywords == 30

----------------------------------------------------------------------------
(* Strings *)

Min(S) == CHOOSE x \in S : \A y \in S : x <= y
Max(S) == CHOOSE x \in S : \A y \in S : x >= y

\* characters that str.strip() and the regex class \s treat as whitespace
IsSpace(c) == c \in {" ", "TAB"}

\* Unicode category Mn (here: U+0301 COMBINING ACUTE ACCENT)
IsMn(c) == c = "ACUTE"

\* str.lower(), character by character
LowerChar(c) ==
    CASE c = "A" -> "a"
      [] c = "B" -> "b"
      [] c = "A_ACUTE" -> "a_acute"
      [] OTHER -> c

\* canonical decomposition (NFD) of one character
Decompose(c) ==
    CASE c = "a_acute" -> <<"a", "ACUTE">>
      [] c = "A_ACUTE" -> <<"A", "ACUTE">>
      [] OTHER -> <<c>>

\* str.strip(): drop leading and trailing whitespace
Strip(s) ==
    LET keep == {i \in 1..Len(s) : ~IsSpace(s[i])}
    IN  IF keep = {} THEN <<>> ELSE SubSeq(s, Min(keep), Max(keep))

Lower(s) == [i \in 1..Len(s) |-> LowerChar(s[i])]

\* unicodedata.normalize("NFD", s)
NFD(s) ==
    LET f[i \in 0..Len(s)] ==
            IF i = 0 THEN <<>> ELSE f[i - 1] \o Decompose(s[i])
    IN  f[Len(s)]

\* "".join(c for c in ... if unicodedata.category(c) != "Mn")
DropMarks(s) == SelectSeq(s, LAMBDA c : ~IsMn(c))

\* re.sub(r"\s+", " ", s): every run of whitespace becomes one space
CollapseSpaces(s) ==
    LET f[i \in 0..Len(s)] ==
            IF i = 0 THEN <<>>
            ELSE IF ~IsSpace(s[i]) THEN Append(f[i - 1], s[i])
            ELSE IF i > 1 /\ IsSpace(s[i - 1]) THEN f[i - 1]
            ELSE Append(f[i - 1], " ")
    IN  f[Len(s)]

\* daily_build.normalize_no_accents
normalize_no_accents(s) == CollapseSpaces(DropMarks(NFD(Lower(Strip(s)))))

\* gen_keywords.strip_accents
strip_accents(s) == DropMarks(NFD(s))

\* gen_keywords.normalize_word
normalize_word(s) == CollapseSpaces(strip_accents(Lower(Strip(s))))

----------------------------------------------------------------------------
(* Keyword candidates and keywords *)

\* A JSON value found under "weight" or "w": absent/null, an integer, a string
\* holding an integer, or a string int() rejects.
NoValue == [tag |-> "none", n |-> 0]
IntValue(n) == [tag |-> "int", n |-> n]
NumStr(n) == [tag |-> "numstr", n |-> n]
BadStr == [tag |-> "str", n |-> 0]

\* Python truthiness of such a value (None and 0 are false, a non-empty string is true)
TruthyValue(v) == v.tag \in {"numstr", "str"} \/ (v.tag = "int" /\ v.n # 0)

\* a candidate as the generator returns it: dict with "word"/"k" and "weight"/"w"
Candidate(word, k, weight, w) == [word |-> word, k |-> k, weight |-> weight, w |-> w]

\* a cleaned keyword: {"word": ..., "weight": ...}
Keyword(word, weight) == [word |-> word, weight |-> weight]

\* a keyword dict read back through .get(): "k" and "w" are absent
AsCandidates(kws) ==
    [i \in 1..Len(kws) |->
        Candidate(kws[i].word, <<>>, IntValue(kws[i].weight), NoValue)]

Take(s, n) == SubSeq(s, 1, IF Len(s) < n THEN Len(s) ELSE n)

\* the items of s at the positions in keep, in order
Filter(s, keep) ==
    LET idx == SelectSeq([i \in 1..Len(s) |-> i], LAMBDA i : i \in keep)
    IN  [k \in 1..Len(idx) |-> s[idx[k]]]

WordsOf(s) == {s[i].word : i \in 1..Len(s)}

\* it.get("word") or it.get("k") or ""
CandidateWord(it) == IF it.word # <<>> THEN it.word ELSE it.k

\* it.get("weight") or it.get("w") or 1
CandidateWeight(it) ==
    IF TruthyValue(it.weight) THEN it.weight
    ELSE IF TruthyValue(it.w) THEN it.w
    ELSE IntValue(1)

\* try: w = int(w)  except Exception: w = 1
IntOrOne(v) == IF v.tag \in {"int", "numstr"} THEN v.n ELSE 1

\* faulty variant of ClampDaily: the lower end is not clamped
ClampDailyNoFloor(w) == IF w >= 3 THEN 3 ELSE w

\* w = 3 if w >= 3 else (2 if w == 2 else 1)
ClampDaily(w) == IF w >= 3 THEN 3 ELSE IF w = 2 THEN 2 ELSE 1

\* faulty variant of SortByWeightDesc: the list is cut without being ranked
SortByWeightDescSkipped(s) == s

\* cleaned.sort(key=lambda x: -x["weight"]): a stable sort. The item at
\* position i moves behind the heavier items and the equally heavy earlier ones.
SortByWeightDesc(s) ==
    LET pos(i) == Cardinality({j \in 1..Len(s) : s[j].weight > s[i].weight})
                  + Cardinality({j \in 1..i : s[j].weight = s[i].weight})
    IN  [p \in 1..Len(s) |-> s[CHOOSE i \in 1..Len(s) : pos(i) = p]]

\* the loop of enforce_keyword_rules: normalize, clamp, drop empty and seen
\* words (seen holds the words of the earlier items that were not empty)
CleanedDaily(items) ==
    LET norm == [i \in 1..Len(items) |->
                    Keyword(normalize_no_accents(CandidateWord(items[i])),
                            ClampDaily(IntOrOne(CandidateWeight(items[i]))))]
        keep == {i \in 1..Len(items) :
                    /\ norm[i].word # <<>>
                    /\ \A j \in 1..(i - 1) : norm[j].word # norm[i].word}
    IN  Filter(norm, keep)

enforce_keyword_rules(items) ==
    Take(SortByWeightDesc(CleanedDaily(items)), MaxKeywords)

\* faulty variant of redistribute_weights: the middle band is capped at 6, not at 10
redistribute_weights_mid6(kws) ==
    LET n == Len(kws)
        top3 == IF n >= 3 THEN (IF 5 < n THEN 5 ELSE n) ELSE n
        remaining == n - top3
        mid2 == IF remaining >= 6 THEN 6 ELSE remaining
    IN  [i \in 1..n |->
            Keyword(kws[i].word,
                    IF i - 1 < top3 THEN 3
                    ELSE IF i - 1 < top3 + mid2 THEN 2
                    ELSE 1)]

redistribute_weights(kws) ==
    LET n == Len(kws)
        top5 == IF 5 < n THEN 5 ELSE n
        top3 == IF n >= 3 THEN (IF 3 > top5 THEN 3 ELSE top5) ELSE n
        remaining == n - top3
        mid10 == IF 10 < remaining THEN 10 ELSE remaining
        mid2 == IF remaining >= 6 THEN (IF 6 > mid10 THEN 6 ELSE mid10) ELSE remaining
    IN  [i \in 1..n |->
            Keyword(kws[i].word,
                    IF i - 1 < top3 THEN 3
                    ELSE IF i - 1 < top3 + mid2 THEN 2
                    ELSE 1)]

\* the post-processing of call_openai_keywords
canonicalize(items) == redistribute_weights(AsCandidates(enforce_keyword_rules(items)))

\* gen_keywords.clamp_weight
clamp_weight(v) ==
    LET w == IntOrOne(v)
    IN  IF w > 3 THEN 3 ELSE IF w < 1 THEN 1 ELSE w

\* gen_keywords.parse_keywords_json, the cleaning loop
parse_keywords_json(data) ==
    LET norm == [i \in 1..Len(data) |->
                    Keyword(normalize_word(data[i].word), clamp_weight(data[i].weight))]
    IN  Filter(norm, {i \in 1..Len(data) : norm[i].word # <<>>})

\* gen_keywords.dedupe_keep_best: first appearance order, highest weight seen
dedupe_keep_best(kws) ==
    LET seen(w) == Max({kws[i].weight : i \in {j \in 1..Len(kws) : kws[j].word = w}})
        order == Filter(kws, {i \in 1..Len(kws) :
                                \A j \in 1..(i - 1) : kws[j].word # kws[i].word})
    IN  [i \in 1..Len(order) |-> Keyword(order[i].word, seen(order[i].word))]

\* gen_keywords.main: parse, dedupe, kws[:30]
gen_keywords(data) == Take(dedupe_keep_best(parse_keywords_json(data)), MaxKeywords)

----------------------------------------------------------------------------
(* Keyword tools: the lists the generator may return, and the operations *)

Letters == <<"a", "b", "c", "d", "e", "f">>

\* 36 distinct two-letter words
WordOf(i) == <<Letters[(i \div 6) + 1], Letters[(i % 6) + 1]>>

WeightPatterns == {"ones", "cycle", "late", "odd"}

\* the weight the generator gives the i-th of n candidates
PatternWeight(pat, i, n) ==
    CASE pat = "ones" -> IntValue(1)
      [] pat = "cycle" -> IntValue((i % 6) - 1)
      [] pat = "late" -> IF i = n THEN IntValue(3) ELSE IF i = n - 1 THEN IntValue(2) ELSE IntValue(1)
      [] OTHER -> IF i % 3 = 0 THEN BadStr ELSE IF i % 3 = 1 THEN NumStr(3) ELSE NoValue

\* a generated list of n candidates; with dup, every fourth repeats the first word
LongList(n, pat, dup) ==
    [i \in 1..n |->
        Candidate(WordOf(IF dup /\ i % 4 = 0 THEN 1 ELSE i), <<>>,
                  PatternWeight(pat, i, n), NoValue)]

\* candidates with upper case, accents, blanks, repeated and empty words, and
\* weights that are zero, negative, above 3, under "w", or no number
IrregularItems ==
    { Candidate(<<"a">>, <<>>, IntValue(1), NoValue),
      Candidate(<<" ", "A">>, <<>>, IntValue(3), NoValue),
      Candidate(<<"a_acute">>, <<>>, IntValue(2), NoValue),
      Candidate(<<>>, <<>>, IntValue(3), NoValue),
      Candidate(<<"ACUTE", " ", "a">>, <<>>, IntValue(1), NoValue),
      Candidate(<<"a", " ", "TAB", "B">>, <<>>, IntValue(5), NoValue),
      Candidate(<<"b">>, <<>>, IntValue(0), IntValue(2)),
      Candidate(<<>>, <<"A_ACUTE">>, IntValue(-1), NoValue),
      Candidate(<<"b">>, <<>>, BadStr, NoValue) }

ShortLists == UNION { [1..n -> IrregularItems] : n \in 0..MaxShort }

CandidateLists ==
    ShortLists \cup { LongList(n, pat, dup) : n \in 3..MaxN, pat \in WeightPatterns, dup \in BOOLEAN }

\* the list the next operation receives: the generator's, or the last result
KwInput == IF ops = <<>> THEN kin ELSE AsCandidates(kout)

KwApply(name, result) ==
    /\ Len(ops) < MaxOps
    /\ kin' = KwInput
    /\ kout' = result
    /\ ops' = Append(ops, name)
    /\ UNCHANGED <<parseVars, runVars>>

EnforceKeywordRules == KwApply("enforce", enforce_keyword_rules(KwInput))

RedistributeWeights == KwApply("redistribute", redistribute_weights(KwInput))

CallOpenaiKeywords == KwApply("canonicalize", canonicalize(KwInput))

GenKeywords == KwApply("gen_keywords", gen_keywords(KwInput))

LastOp == IF ops = <<>> THEN "none" ELSE ops[Len(ops)]

----------------------------------------------------------------------------
(* Document parser *)

IsDigit(c) == c \in {"0", "1", "2", "3", "4", "5", "6", "7", "8", "9"}

\* the pattern \d{4}-\d{2}-\d{2} matches s at position i
DateAt(s, i) ==
    /\ i >= 1
    /\ i + 9 <= Len(s)
    /\ \A j \in {0, 1, 2, 3, 5, 6, 8, 9} : IsDigit(s[i + j])
    /\ s[i + 4] = "-"
    /\ s[i + 7] = "-"

\* re.match(r"^\d{4}-\d{2}-\d{2}$", s) on a string without line breaks
MatchesDate(s) == Len(s) = 10 /\ DateAt(s, 1)

\* re.search(r"\d{4}-\d{2}-\d{2}", s): the positions where a match starts
DatePositions(s) == {i \in 1..Len(s) : DateAt(s, i)}

\* str.upper() of a metadata key
UpperKey(k) ==
    CASE k = "fecha" -> "FECHA"
      [] k = "Date" -> "DATE"
      [] k = "poeta" -> "POETA"
      [] OTHER -> k

META_ALIASES ==
    [k \in {"FECHA", "DATE", "POETA", "POET", "POEM_TITLE", "TITULO_POEMA",
            "POEM_SNIPPET", "FRAGMENTO_POEMA", "BOOK_TITLE", "TITULO_LIBRO",
            "MY_POEM_TITLE", "MI_TITULO", "MY_POEM_SNIPPET", "MI_FRAGMENTO"} |->
        CASE k \in {"FECHA", "DATE"} -> "date"
          [] k \in {"POETA", "POET"} -> "poet"
          [] k \in {"POEM_TITLE", "TITULO_POEMA"} -> "poem_title"
          [] k \in {"POEM_SNIPPET", "FRAGMENTO_POEMA"} -> "poem_snippet"
          [] k \in {"BOOK_TITLE", "TITULO_LIBRO"} -> "book_title"
          [] k \in {"MY_POEM_TITLE", "MI_TITULO"} -> "my_poem_title"
          [] OTHER -> "my_poem_snippet"]

\* a dict with one key set (or overwritten)
DictSet(d, k, v) == (k :> v) @@ d

EmptyDict == [k \in {} |-> <<>>]

\* dict.get(k, "")
DictGet(d, k) == IF k \in DOMAIN d THEN d[k] ELSE <<>>

\* A line of the metadata block: whether it has the form KEY: value, its key as
\* written and its value.
MetaLine(m, k, v) == [m |-> m, k |-> k, v |-> v]

\* step 1 of parse_txt: the loop over the lines of the metadata block
MetaBlock(lines) ==
    LET f[i \in 0..Len(lines)] ==
            IF i = 0 THEN EmptyDict
            ELSE LET m == f[i - 1]
                     line == lines[i]
                     k == UpperKey(line.k)
                     v == Strip(line.v)
                 IN  IF ~line.m THEN m
                     ELSE IF v = <<>> THEN m
                     ELSE IF k \in DOMAIN META_ALIASES THEN DictSet(m, META_ALIASES[k], v)
                     ELSE m
    IN  f[Len(lines)]

\* faulty variant of parse_txt: the date of the file name replaces the one of the block
parse_txt_name_first(d) ==
    LET m == MetaBlock(d.lines)
        found == DatePositions(d.name)
    IN  IF found # {}
        THEN DictSet(m, "date", SubSeq(d.name, Min(found), Min(found) + 9))
        ELSE m

\* parse_txt: the metadata of a document (block, then the file-name fallback)
parse_txt(d) ==
    LET m == MetaBlock(d.lines)
        found == DatePositions(d.name)
    IN  IF "date" \notin DOMAIN m /\ found # {}
        THEN DictSet(m, "date", SubSeq(d.name, Min(found), Min(found) + 9))
        ELSE m

Y2025 == <<"2", "0", "2", "5">>
Date0310 == Y2025 \o <<"-", "0", "3", "-", "1", "0">>
Date0101 == Y2025 \o <<"-", "0", "1", "-", "0", "1">>
Date0201 == Y2025 \o <<"-", "0", "2", "-", "0", "1">>
Date1231 == <<"2", "0", "2", "4", "-", "1", "2", "-", "3", "1">>
SlashDate == <<"1", "0", "/", "0", "3", "/">> \o Y2025
ShortDate == Y2025 \o <<"-", "3", "-", "1", "0">>
DotTxt == <<".", "t", "x", "t">>

LineChoices ==
    { MetaLine(TRUE, k, v) : k \in {"FECHA", "Date", "POETA"},
                             v \in {<<" ">> \o Date0310, SlashDate, <<>>} }
    \cup { MetaLine(FALSE, "", Date0101) }

FileNames == { Date0101 \o DotTxt, <<"n">> \o Date0201 \o <<"1">> \o DotTxt,
               ShortDate \o DotTxt, <<"p", "o", "e", "m", "a">> \o DotTxt }

Document(lines, name, texto) == [lines |-> lines, name |-> name, texto |-> texto]

Documents ==
    { Document(l, n, <<"t">>) :
        l \in UNION { [1..k -> LineChoices] : k \in 0..MaxLines }, n \in FileNames }

NotParsed == [done |-> FALSE, meta |-> EmptyDict]

ParseTxt ==
    /\ ~parsed.done
    /\ parsed' = [done |-> TRUE, meta |-> parse_txt(doc)]
    /\ UNCHANGED <<doc, kwVars, runVars>>

----------------------------------------------------------------------------
(* Archive file, entry builder and merger *)

\* code point of a character (those that occur in dates)
Ord(c) ==
    CASE c = "-" -> 45
      [] c = "/" -> 47
      [] c = "0" -> 48
      [] c = "1" -> 49
      [] c = "2" -> 50
      [] c = "3" -> 51
      [] c = "4" -> 52
      [] c = "5" -> 53
      [] c = "6" -> 54
      [] c = "7" -> 55
      [] c = "8" -> 56
      [] c = "9" -> 57
      [] OTHER -> 120

\* Python's a < b on strings: lexicographic by code point
StrLess(a, b) ==
    \E i \in 1..(Len(b)) :
        /\ i <= Len(a) + 1
        /\ \A j \in 1..(i - 1) : a[j] = b[j]
        /\ (i = Len(a) + 1 \/ Ord(a[i]) < Ord(b[i]))

\* The archive file: absent, or present with a content that is no JSON at all
\* (zero bytes, or other text), JSON whose root is no list, or a JSON list.
AbsentFile == [exists |-> FALSE, kind |-> "empty", data |-> <<>>]
EmptyFile == [exists |-> TRUE, kind |-> "empty", data |-> <<>>]
GarbageFile == [exists |-> TRUE, kind |-> "garbage", data |-> <<>>]
ObjectFile == [exists |-> TRUE, kind |-> "object", data |-> <<>>]
ListFile(es) == [exists |-> TRUE, kind |-> "list", data |-> es]

\* json.loads(path.read_text()): the value, or JSONDecodeError
json_loads(f) ==
    IF f.kind \in {"empty", "garbage"} THEN [err |-> "JSONDecodeError", islist |-> FALSE, data |-> <<>>]
    ELSE [err |-> "none", islist |-> f.kind = "list", data |-> f.data]

\* load_entries: the list, or the error raised
load_entries(f) ==
    IF ~f.exists THEN [err |-> "none", data |-> <<>>]
    ELSE LET v == json_loads(f)
         IN  IF v.err # "none" THEN [err |-> v.err, data |-> <<>>]
             ELSE IF ~v.islist THEN [err |-> "NotAList", data |-> <<>>]
             ELSE [err |-> "none", data |-> v.data]

\* faulty variant of sort_entries_desc: reverse=True is missing
sort_entries_asc(es) ==
    LET Insert(r, x) ==
            LET pos == Cardinality({j \in 1..Len(r) : ~StrLess(x.date, r[j].date)})
            IN  SubSeq(r, 1, pos) \o <<x>> \o SubSeq(r, pos + 1, Len(r))
        f[i \in 0..Len(es)] == IF i = 0 THEN <<>> ELSE Insert(f[i - 1], es[i])
    IN  f[Len(es)]

\* sorted(entries, key=lambda e: e.get("date", ""), reverse=True): stable
sort_entries_desc(es) ==
    LET Insert(r, x) ==
            LET pos == Cardinality({j \in 1..Len(r) : ~StrLess(r[j].date, x.date)})
            IN  SubSeq(r, 1, pos) \o <<x>> \o SubSeq(r, pos + 1, Len(r))
        f[i \in 0..Len(es)] == IF i = 0 THEN <<>> ELSE Insert(f[i - 1], es[i])
    IN  f[Len(es)]

\* faulty variant of HasDate: only the newest entry is compared
HasDateNewestOnly(es, date) == es # <<>> /\ es[1].date = date

\* any(e.get("date") == date for e in entries)
HasDate(es, date) == \E i \in 1..Len(es) : es[i].date = date

\* the date build_entry validates: meta.get("date", "").strip()
EntryDate(m) == Strip(DictGet(m, "date"))

\* build_entry raises ValueError unless the date is YYYY-MM-DD
DateIsValid(m) == MatchesDate(EntryDate(m))

\* build_entry: the entry (title, snippet and analysis fields are copied the
\* same way as book_title and are left out)
build_entry(m, txt_relpath, kws) ==
    [date |-> EntryDate(m),
     month |-> SubSeq(EntryDate(m), 1, 7),
     file |-> txt_relpath,
     book_title |-> Strip(DictGet(m, "book_title")),
     keywords |-> kws]

\* a string UTF-8 can encode: it holds no lone surrogate
Encodable(str) == \A i \in 1..Len(str) : str[i] # "LONE_SURROGATE"

\* write_text(json.dumps(entries, ensure_ascii=False), encoding="utf-8") succeeds
EntriesEncodable(es) ==
    \A i \in 1..Len(es) :
        /\ Encodable(es[i].file)
        /\ Encodable(es[i].book_title)
        /\ \A j \in 1..Len(es[i].keywords) : Encodable(es[i].keywords[j].word)

\* Path.write_text: open(mode="w") truncates the file, then the text is
\* encoded and written; an encoding error leaves the truncated file.
write_text(es) == IF EntriesEncodable(es) THEN ListFile(es) ELSE EmptyFile

----------------------------------------------------------------------------
(* The pipeline: main() of daily_build.py, one run at a time *)

PlainDoc(name) == Document(<<>>, name, <<"t">>)

\* what one invocation is given: the document, --fecha and --book-title
RunInput(d, fecha, book) == [doc |-> d, fecha |-> fecha, book_title |-> book]

RunInputs ==
    { RunInput(PlainDoc(Date0101 \o DotTxt), <<>>, <<>>),
      RunInput(PlainDoc(Date0201 \o DotTxt), <<>>, <<"b">>),
      RunInput(PlainDoc(Date1231 \o DotTxt), <<>>, <<>>),
      RunInput(Document(<<MetaLine(TRUE, "FECHA", Date0310)>>, Date0101 \o DotTxt, <<"t">>),
               <<>>, <<>>),
      RunInput(PlainDoc(Date0310 \o DotTxt), <<>>, <<"b", "LONE_SURROGATE">>),
      RunInput(PlainDoc(<<"p">> \o DotTxt), Date0201 \o <<" ">>, <<>>),
      RunInput(PlainDoc(<<"p">> \o DotTxt), <<>>, <<>>),
      RunInput(Document(<<MetaLine(TRUE, "DATE", SlashDate)>>, Date0101 \o DotTxt, <<"t">>),
               <<>>, <<>>),
      RunInput(Document(<<>>, Date0310 \o DotTxt, <<" ">>), <<>>, <<>>) }

\* what the keyword generator answers: an error, a "keywords" value that is no
\* list, or a list of candidates
GeneratorReplies ==
    { [kind |-> "error", keywords |-> <<>>],
      [kind |-> "notlist", keywords |-> <<>>],
      [kind |-> "list",
       keywords |-> <<Candidate(<<"A_ACUTE">>, <<>>, IntValue(1), NoValue),
                      Candidate(<<"b">>, <<>>, IntValue(7), NoValue)>>] }

\* an archive written by hand before the first run
OldEntry ==
    [date |-> Date0101, month |-> SubSeq(Date0101, 1, 7), file |-> <<"o">>,
     book_title |-> <<>>, keywords |-> <<>>]

InitialFiles ==
    {AbsentFile, EmptyFile, GarbageFile, ObjectFile, ListFile(<<>>), ListFile(<<OldEntry>>)}

NoEntry ==
    [date |-> <<>>, month |-> <<>>, file |-> <<>>, book_title |-> <<>>, keywords |-> <<>>]

NotLoaded == [loaded |-> FALSE, err |-> "none", data |-> <<>>]

Fail(reason) ==
    /\ pc' = "failed"
    /\ failure' = reason

\* main(), lines 299-319: parse the document, apply the overrides, require # TEXTO
StartRun ==
    /\ pc \in {"idle", "done", "failed"}
    /\ nruns < MaxRuns
    /\ \E in \in RunInputs :
        LET m0 == parse_txt(in.doc)
            m1 == IF in.fecha # <<>> THEN DictSet(m0, "date", in.fecha) ELSE m0
            m2 == IF in.book_title # <<>> THEN DictSet(m1, "book_title", in.book_title) ELSE m1
        IN  /\ meta' = m2
            /\ entry' = [NoEntry EXCEPT !.file = in.doc.name]
            /\ IF Strip(in.doc.texto) = <<>>
               THEN Fail("NoAnalysis")
               ELSE pc' = "parsed" /\ failure' = "none"
    /\ nruns' = nruns + 1
    /\ startStorage' = storage
    /\ keywords' = <<>>
    /\ entries' = <<>>
    /\ loadSrc' = AbsentFile
    /\ loadRes' = NotLoaded
    /\ UNCHANGED <<storage, added, kwVars, parseVars>>

\* main(), line 321: call_openai_keywords
CallKeywords ==
    /\ pc = "parsed"
    /\ \E reply \in GeneratorReplies :
        CASE reply.kind = "error" ->
                Fail("Generation") /\ UNCHANGED keywords
          [] reply.kind = "notlist" ->
                pc' = "keywords" /\ keywords' = <<>> /\ UNCHANGED failure
          [] OTHER ->
                pc' = "keywords" /\ keywords' = canonicalize(reply.keywords) /\ UNCHANGED failure
    /\ UNCHANGED <<meta, entry, entries, storage, loadSrc, loadRes, startStorage,
                   added, nruns, kwVars, parseVars>>

\* main(), lines 323-324: build_entry
BuildEntry ==
    /\ pc = "keywords"
    /\ IF DateIsValid(meta)
       THEN /\ entry' = build_entry(meta, entry.file, keywords)
            /\ pc' = "built"
            /\ UNCHANGED failure
       ELSE Fail("InvalidDate") /\ UNCHANGED entry
    /\ UNCHANGED <<meta, keywords, entries, storage, loadSrc, loadRes, startStorage,
                   added, nruns, kwVars, parseVars>>

\* main(), lines 326-331: load_entries, the duplicate check, append and sort
LoadAndMerge ==
    /\ pc = "built"
    /\ LET res == load_entries(storage)
       IN  /\ loadSrc' = storage
           /\ loadRes' = [loaded |-> TRUE, err |-> res.err, data |-> res.data]
           /\ IF res.err # "none"
              THEN Fail(res.err) /\ UNCHANGED entries
              ELSE IF HasDate(res.data, entry.date)
              THEN Fail("DuplicateDate") /\ UNCHANGED entries
              ELSE /\ entries' = sort_entries_desc(Append(res.data, entry))
                   /\ pc' = "merged"
                   /\ UNCHANGED failure
    /\ UNCHANGED <<meta, keywords, entry, storage, startStorage, added, nruns,
                   kwVars, parseVars>>

\* main(), line 333: JSON_PATH.write_text(json.dumps(entries, ...))
WriteArchive ==
    /\ pc = "merged"
    /\ storage' = write_text(entries)
    /\ IF EntriesEncodable(entries)
       THEN pc' = "done" /\ added' = added \cup {entry} /\ UNCHANGED failure
       ELSE Fail("UnicodeEncodeError") /\ UNCHANGED added
    /\ UNCHANGED <<meta, keywords, entry, entries, loadSrc, loadRes, startStorage,
                   nruns, kwVars, parseVars>>

----------------------------------------------------------------------------
(* Specifications *)

KwIdle == kin = <<>> /\ kout = <<>> /\ ops = <<>>

ParseIdle == doc = PlainDoc(<<>>) /\ parsed = NotParsed

RunIdle ==
    /\ pc = "idle"
    /\ meta = EmptyDict
    /\ keywords = <<>>
    /\ entry = NoEntry
    /\ entries = <<>>
    /\ failure = "none"
    /\ storage = AbsentFile
    /\ loadSrc = AbsentFile
    /\ loadRes = NotLoaded
    /\ startStorage = AbsentFile
    /\ added = {}
    /\ nruns = 0

\* the pipeline, started on any archive file
Init ==
    /\ KwIdle
    /\ ParseIdle
    /\ pc = "idle"
    /\ meta = EmptyDict
    /\ keywords = <<>>
    /\ entry = NoEntry
    /\ entries = <<>>
    /\ failure = "none"
    /\ storage \in InitialFiles
    /\ loadSrc = AbsentFile
    /\ loadRes = NotLoaded
    /\ startStorage = storage
    /\ added = {}
    /\ nruns = 0

Next == StartRun \/ CallKeywords \/ BuildEntry \/ LoadAndMerge \/ WriteArchive

Spec == Init /\ [][Next]_vars

\* the keyword tools, applied to any list of candidates
InitKw ==
    /\ kin \in CandidateLists
    /\ kout = <<>>
    /\ ops = <<>>
    /\ ParseIdle
    /\ RunIdle

NextKw == EnforceKeywordRules \/ RedistributeWeights \/ CallOpenaiKeywords \/ GenKeywords

SpecKw == InitKw /\ [][NextKw]_vars

\* the parser, applied to any document
InitParse ==
    /\ doc \in Documents
    /\ parsed = NotParsed
    /\ KwIdle
    /\ RunIdle

NextParse == ParseTxt

SpecParse == InitParse /\ [][NextParse]_vars

----------------------------------------------------------------------------
(* Properties of the keyword tools (checked under SpecKw) *)

CountWeight(s, w) == Cardinality({i \in 1..Len(s) : s[i].weight = w})

\* size of the weight-3 band and of the weight-2 band of a list of n keywords
TopBand(n) == IF n < 3 THEN n ELSE IF n < 5 THEN n ELSE 5
MidBand(n) == IF n - TopBand(n) < 10 THEN n - TopBand(n) ELSE 10

Smaller(a, b) == IF a < b THEN a ELSE b

\* C4: redistribute_weights keeps the words and their order and gives weight 3
\* to the first T, 2 to the next M and 1 to the rest, T and M depending on the
\* length alone; the number of weight-3 entries is between min(3,n) and
\* min(5,n) when n >= 3 and n otherwise.
C4_RetierByRank ==
    LastOp \in {"redistribute", "canonicalize"} =>
        LET n == Len(kout)
        IN  /\ LastOp = "redistribute" => n = Len(kin)
            /\ LastOp = "redistribute" => \A i \in 1..n : kout[i].word = kin[i].word
            /\ \A i \in 1..n :
                    kout[i].weight = IF i <= TopBand(n) THEN 3
                                     ELSE IF i <= TopBand(n) + MidBand(n) THEN 2
                                     ELSE 1
            /\ IF n >= 3
               THEN /\ CountWeight(kout, 3) >= Smaller(3, n)
                    /\ CountWeight(kout, 3) <= Smaller(5, n)
               ELSE CountWeight(kout, 3) = n
            /\ CountWeight(kout, 2) = Smaller(10, n - CountWeight(kout, 3))

\* C4 witness: a list of 30 whose input weights were not tiered comes out 5 / 10 / 15
C4_Witness ==
    /\ LastOp = "redistribute"
    /\ Len(kin) = 30
    /\ \E i \in 1..5 : kin[i].weight # IntValue(3)
    /\ CountWeight(kout, 3) = 5
    /\ CountWeight(kout, 2) = 10
    /\ CountWeight(kout, 1) = 15

\* C5: canonicalize applied to its own result returns that result.
C5_Idempotent ==
    (Len(ops) >= 2 /\ ops[Len(ops)] = "canonicalize" /\ ops[Len(ops) - 1] = "canonicalize")
        => AsCandidates(kout) = kin

\* C6: the list either pipeline produces has at most 30 entries, no empty
\* word, no word twice and only the weights 1, 2, 3.
C6_BoundedAndClean ==
    LastOp \in {"enforce", "gen_keywords"} =>
        /\ Len(kout) <= MaxKeywords
        /\ \A i \in 1..Len(kout) :
            /\ kout[i].word # <<>>
            /\ kout[i].weight \in {1, 2, 3}
            /\ \A j \in 1..Len(kout) : kout[i].word = kout[j].word => i = j

\* C6 witness: more than 30 candidates, some with a weight that is no number,
\* were cut to 30
C6_Witness ==
    /\ LastOp = "enforce"
    /\ Len(kin) > MaxKeywords
    /\ \E i \in 1..Len(kin) : kin[i].weight = BadStr
    /\ Len(kout) = MaxKeywords

\* the deduplicated list a pipeline holds before it cuts to 30
DedupedDaily == CleanedDaily(kin)
DedupedGen == dedupe_keep_best(parse_keywords_json(kin))

IndexIn(s, word) == CHOOSE i \in 1..Len(s) : s[i].word = word

\* no keyword that the cut dropped is heavier than one that was kept
NoDroppedOutranksKept(full) ==
    \A i \in 1..Len(full) :
        full[i].word \notin WordsOf(kout) =>
            \A j \in 1..Len(kout) : full[i].weight <= kout[j].weight

\* kout is the first 30 of the stable ranking of full by weight, descending
RankedThenCut(full) ==
    /\ Len(kout) = Smaller(MaxKeywords, Len(full))
    /\ \A j \in 1..Len(kout) : \E i \in 1..Len(full) : full[i] = kout[j]
    /\ \A i \in 1..Len(kout) : \A j \in (i + 1)..Len(kout) :
        /\ kout[i].weight >= kout[j].weight
        /\ kout[i].weight = kout[j].weight =>
                IndexIn(full, kout[i].word) < IndexIn(full, kout[j].word)
    /\ NoDroppedOutranksKept(full)
    /\ \A i \in 1..Len(full) : \A j \in 1..Len(kout) :
        (full[i].word \notin WordsOf(kout) /\ full[i].weight = kout[j].weight)
            => IndexIn(full, kout[j].word) < i

\* C9 as stated: both pipelines rank by weight before cutting to 30.
C9_RankBeforeCut ==
    /\ LastOp = "enforce" => RankedThenCut(DedupedDaily)
    /\ LastOp = "gen_keywords" => RankedThenCut(DedupedGen)

\* C9 amended: enforce_keyword_rules ranks by weight (stable) and then cuts to
\* 30; gen_keywords keeps the order of first appearance and cuts to the first 30.
C9_RankOnlyInDaily ==
    /\ LastOp = "enforce" => RankedThenCut(DedupedDaily)
    /\ LastOp = "gen_keywords" => kout = Take(DedupedGen, MaxKeywords)

\* C9 witness: of more than 30 keywords the last, the only one of weight 3, is
\* ranked first by enforce_keyword_rules
C9_Witness ==
    /\ LastOp = "enforce"
    /\ Len(DedupedDaily) > MaxKeywords
    /\ kin[Len(kin)].weight = IntValue(3)
    /\ kin[1].weight = IntValue(1)
    /\ kout[1].word = kin[Len(kin)].word

----------------------------------------------------------------------------
(* Properties of the parser (checked under SpecParse) *)

\* the lines of the metadata block that name the date: KEY: value with KEY
\* one of FECHA, DATE in any case
DateLines(d) ==
    {i \in 1..Len(d.lines) : d.lines[i].m /\ UpperKey(d.lines[i].k) \in {"FECHA", "DATE"}}

\* those of them whose value is not empty
SetDateLines(d) == {i \in DateLines(d) : Strip(d.lines[i].v) # <<>>}

\* C8 as stated: a document with a dated file name or a date line in its
\* metadata block is parsed to a date of the form YYYY-MM-DD.
C8_DateWellFormed ==
    (parsed.done /\ (DatePositions(doc.name) # {} \/ DateLines(doc) # {})) =>
        ("date" \in DOMAIN parsed.meta /\ MatchesDate(parsed.meta["date"]))

\* C8 amended: the date is the stripped value of the last date line of the
\* block that has a value, whatever it is (so it has the form YYYY-MM-DD just
\* when that value has); only without such a line is the file name consulted,
\* and then the date is the first YYYY-MM-DD in it, or stays unset.
C8_DateFromBlockElseName ==
    parsed.done =>
        IF SetDateLines(doc) # {}
        THEN /\ "date" \in DOMAIN parsed.meta
             /\ parsed.meta["date"] = Strip(doc.lines[Max(SetDateLines(doc))].v)
             /\ MatchesDate(parsed.meta["date"])
                    <=> MatchesDate(Strip(doc.lines[Max(SetDateLines(doc))].v))
        ELSE IF DatePositions(doc.name) # {}
        THEN /\ "date" \in DOMAIN parsed.meta
             /\ MatchesDate(parsed.meta["date"])
             /\ \E i \in DatePositions(doc.name) :
                    /\ parsed.meta["date"] = SubSeq(doc.name, i, i + 9)
                    /\ \A j \in DatePositions(doc.name) : i <= j
        ELSE "date" \notin DOMAIN parsed.meta

\* C8 witness: the block gives one date and the file name another; the date
\* of the block is returned
C8_Witness ==
    /\ parsed.done
    /\ SetDateLines(doc) # {}
    /\ DatePositions(doc.name) # {}
    /\ parsed.meta["date"] = Date0310
    /\ SubSeq(doc.name, Min(DatePositions(doc.name)), Min(DatePositions(doc.name)) + 9) # Date0310

----------------------------------------------------------------------------
(* Properties of the pipeline (checked under Spec) *)

EntriesOf(f) == {f.data[i] : i \in 1..Len(f.data)}

\* C1: the archive never holds two entries of one date, and a run whose date
\* is in the archive it loaded fails with the duplicate-date error, and no other.
C1_DateUnique ==
    /\ \A i, j \in 1..Len(storage.data) :
            storage.data[i].date = storage.data[j].date => i = j
    /\ (loadRes.loaded /\ loadRes.err = "none") =>
            ((\E i \in 1..Len(loadRes.data) : loadRes.data[i].date = entry.date)
                <=> (pc = "failed" /\ failure = "DuplicateDate"))

\* C1 witness: a run failed on its date, against an archive of two entries
C1_Witness ==
    /\ pc = "failed"
    /\ failure = "DuplicateDate"
    /\ Len(storage.data) >= 2
    /\ \E i \in 1..Len(storage.data) : storage.data[i].date = entry.date

\* C2: the archive file is sorted by date, descending, under string comparison.
C2_SortedDesc ==
    storage.kind = "list" =>
        \A i \in 1..(Len(storage.data) - 1) :
            ~StrLess(storage.data[i].date, storage.data[i + 1].date)

\* C2 witness: a run wrote its entry between an older and a newer one
C2_Witness ==
    /\ pc = "done"
    /\ Len(storage.data) = 3
    /\ storage.data[2] = entry
    /\ StrLess(storage.data[3].date, entry.date)
    /\ StrLess(entry.date, storage.data[1].date)

\* C3: until a run has succeeded the archive file is as it was when the run
\* started; a failed run leaves it so.
C3_AllOrNothing == pc # "done" => storage = startStorage

\* C7: load_entries returns the empty list for a file that is absent or empty,
\* fails with the malformed-archive error for a root that is no list, and
\* returns a list unchanged.
C7_LoadEntries ==
    loadRes.loaded =>
        /\ (~loadSrc.exists \/ loadSrc.kind = "empty") =>
                (loadRes.err = "none" /\ loadRes.data = <<>>)
        /\ (loadSrc.exists /\ loadSrc.kind = "object") => loadRes.err = "NotAList"
        /\ (loadSrc.exists /\ loadSrc.kind = "list") =>
                (loadRes.err = "none" /\ loadRes.data = loadSrc.data)

\* C10: a successful run writes the entries it loaded plus its own, and every
\* entry a successful run has written is still in the archive.
C10_NoLostUpdates ==
    /\ pc = "done" =>
        /\ Len(storage.data) = Len(loadRes.data) + 1
        /\ EntriesOf(storage) = {loadRes.data[i] : i \in 1..Len(loadRes.data)} \cup {entry}
    /\ \A e \in added : e \in EntriesOf(storage)

====
